---- MODULE Spec2Model ----
(***************************************************************************)
(* A model of the radio stack of the PySquared flight software:            *)
(*   - PacketManager (send, _pack_data, listen, _unpack_data, _get_header) *)
(*   - Counter (the 8-bit NVM message counter)                             *)
(*   - CommandDataHandler (listen_for_commands and its command handlers)   *)
(*   - the radio managers behind RadioProto (send, receive, get_rssi)      *)
(* Byte strings are sequences of numbers 0..255; a packet is the byte      *)
(* string header ++ payload exactly as _pack_data lays it out.             *)
(***************************************************************************)
EXTENDS Integers, Sequences, FiniteSets, TLC

VARIABLES
    \* ---- PacketManager / Counter / radio -------------------------------
    license,            \* PacketManager._license
    message_counter,    \* the NVM byte behind PacketManager._message_counter
    payload_size,       \* PacketManager._payload_size (fixed in __init__)
    max_packet_size,    \* what radio.get_max_packet_size() reports now
    radio,              \* the class of the radio manager behind RadioProto
    last_rssi,          \* what radio.get_rssi() reports
    \* ---- PacketManager.send (one call) ----------------------------------
    spc,                \* "idle" | "returned" | "raised"
    data,               \* the argument of the last send
    packets,            \* the list _pack_data returned to the last send
    air,                \* the byte strings handed to radio.send, in call order
    send_result,        \* "none" | "true" | "false" | "raise"
    radio_acks,         \* what radio.send returned, in call order
    ops,                \* how many sends or command cycles the behaviour ran
    \* ---- PacketManager.listen (one call) --------------------------------
    lpc,                \* "idle" | "check" | "recv" | "returned"
    elapsed,            \* time.time() - start_time, in ticks
    received_packets,   \* the local list received_packets
    packet,             \* the local packet: what radio.receive returned last
    listen_result,      \* the value listen returned (None or bytes)
    on_air,             \* the packets the environment can deliver
    sent_message,       \* the message a peer handed to its own send
    \* ---- CommandDataHandler.listen_for_commands (one call) --------------
    cpc,                \* position in listen_for_commands
    json_bytes,         \* what PacketManager.listen returned
    msg,                \* json.loads(json_str)
    cmd,                \* msg.get("command")
    args,               \* the args list handed to the handler
    exc,                \* the exception in flight ("none" when there is none)
    events,             \* what the cycle did, in order: sends, resets, updates
    jokes,              \* Config.jokes
    modulation,         \* Config.radio.modulation (RAM)
    saved_modulation,   \* "radio"."modulation" in the configuration file
    start_modulation,   \* <<modulation, saved_modulation>> when the cycle began
    \* ---- BinaryEncoder and BinaryDecoder --------------------------------
    kpc,                \* "adding" | "serialized" | "failed" | "decoded" |
                        \* "decode_raised"
    enc_data,           \* BinaryEncoder._data: items (key, (fmt, value))
    enc_key_map,        \* BinaryEncoder._key_map: items (key_hash, key)
    enc_call,           \* the last add_int or add_string call
    enc_raised,         \* what that call raised ("none" when it returned)
    enc_calls,          \* how many insertion calls were made
    inserted,           \* per key, the value the caller last got accepted
    blob,               \* what to_bytes returned
    dec_input,          \* the buffer handed to BinaryDecoder
    decoded             \* BinaryDecoder._data: items (key_name, value)

framerVars == <<license, message_counter, payload_size, max_packet_size,
                radio, last_rssi>>
sendVars == <<spc, data, packets, air, send_result, radio_acks>>
listenVars == <<lpc, elapsed, received_packets, packet, listen_result, on_air,
                sent_message>>
cdhVars == <<cpc, json_bytes, msg, cmd, args, exc, events, jokes, modulation,
             saved_modulation, start_modulation>>
codecVars == <<kpc, enc_data, enc_key_map, enc_call, enc_raised, enc_calls,
               inserted, blob, dec_input, decoded>>
vars == <<framerVars, sendVars, listenVars, cdhVars, codecVars, ops>>

(***************************************************************************)
(* Bounds of the model.                                                    *)
(***************************************************************************)
\* the longest message handed to send
MaxLen == 3
\* the largest payload capacity a radio of the model offers
MaxPayload == 2
\* send calls in one behaviour
MaxSends == 2
\* command cycles in one behaviour
MaxCycles == 1
\* the listen timeout, in ticks
Timeout == 1
\* the most packets one listen call accepts before the model stops feeding it
MaxReceived == 3

\* insertion calls on one encoder
MaxInsertions == 2
\* the decoder is handed the prefixes that end within this many bytes of either
\* end of the serialized bytes
MaxCut == 13

\* Optional values: None is the empty tuple and a value x is <<x>>, so that
\* None differs from every value, the empty byte string included
None == <<>>
Some(x) == <<x>>
\* the byte values messages are made of
Byte == {0, 1}

(***************************************************************************)
(* Byte strings.                                                           *)
(***************************************************************************)
\* data[start:end] of Python, 0-based, end exclusive, clamped to len(data)
Slice(s, start, end) ==
    LET lo == IF start > Len(s) THEN Len(s) ELSE start
        hi == IF end > Len(s) THEN Len(s) ELSE end
    IN  IF hi <= lo THEN <<>> ELSE SubSeq(s, lo + 1, hi)

\* int.to_bytes(width, "big") for 0 <= n < 256^width
RECURSIVE ToBytes(_, _)
ToBytes(n, width) ==
    IF width = 0 THEN <<>>
    ELSE Append(ToBytes(n \div 256, width - 1), n % 256)

\* int.from_bytes(b, "big"); the empty byte string is 0
RECURSIVE FromBytes(_)
FromBytes(b) ==
    IF b = <<>> THEN 0
    ELSE 256 * FromBytes(SubSeq(b, 1, Len(b) - 1)) + b[Len(b)]

\* abs()
Abs(n) == IF n < 0 THEN -n ELSE n

\* b"".join(list)
RECURSIVE Join(_)
Join(list) ==
    IF list = <<>> THEN <<>> ELSE Head(list) \o Join(Tail(list))

\* every byte string over Byte of length lo..hi
BytesOfLen(lo, hi) == UNION {[1..n -> Byte] : n \in lo..hi}

(***************************************************************************)
(* Counter (src/pysquared/nvm/counter.py).                                 *)
(***************************************************************************)
\* the mutant: a counter that saturates instead of rolling over
IncrementSaturating(value) == IF value = 255 THEN 255 ELSE value + 1
\* Counter.increment: (get() + 1) & 0xFF
Increment(value) == (value + 1) % 256

(***************************************************************************)
(* The radio managers.                                                     *)
(***************************************************************************)
\* the managers of the repository; only RFM9xManager defines get_rssi, the
\* others inherit BaseRadioManager.get_rssi, which raises NotImplementedError
RadioManagers == {"RFM9xManager", "SX126xManager", "SX1280Manager"}
GetRssiRaises(r) == r # "RFM9xManager"

(***************************************************************************)
(* PacketManager: packing.                                                 *)
(***************************************************************************)
HeaderSize == 6

\* the mutant: floor instead of ceil
FloorDiv(len, size) == len \div size
\* math.ceil(len(data) / self._payload_size)
CeilDiv(len, size) == (len + size - 1) \div size

\* the mutant: the two-byte fields are little-endian
HeaderLittleEndian(packet_identifier, sequence_number, total_packets, rssi) ==
    ToBytes(packet_identifier, 1)
        \o <<sequence_number % 256, sequence_number \div 256>>
        \o <<total_packets % 256, total_packets \div 256>>
        \o ToBytes(Abs(rssi), 1)
\* the mutant: the sequence field carries the 1-based position
HeaderOneBased(packet_identifier, sequence_number, total_packets, rssi) ==
    ToBytes(packet_identifier, 1) \o ToBytes(sequence_number + 1, 2)
        \o ToBytes(total_packets, 2) \o ToBytes(Abs(rssi), 1)
\* the header of _pack_data
Header(packet_identifier, sequence_number, total_packets, rssi) ==
    ToBytes(packet_identifier, 1) \o ToBytes(sequence_number, 2)
        \o ToBytes(total_packets, 2) \o ToBytes(Abs(rssi), 1)

\* the mutant: an empty message is sent as one packet without payload
PackDataAtLeastOne(d, size, packet_identifier, rssi) ==
    LET total_packets == IF d = <<>> THEN 1 ELSE CeilDiv(Len(d), size)
    IN  [i \in 1..total_packets |->
            Header(packet_identifier, i - 1, total_packets, rssi)
                \o Slice(d, (i - 1) * size, (i - 1) * size + size)]
\* _pack_data, given the identifier _get_packet_identifier returned
PackData(d, size, packet_identifier, rssi) ==
    LET total_packets == CeilDiv(Len(d), size)
    IN  [i \in 1..total_packets |->
            Header(packet_identifier, i - 1, total_packets, rssi)
                \o Slice(d, (i - 1) * size, (i - 1) * size + size)]

\* _get_header and _get_payload
GetIdentifier(p) == FromBytes(Slice(p, 0, 1))
GetSequence(p) == FromBytes(Slice(p, 1, 3))
GetTotal(p) == FromBytes(Slice(p, 3, 5))
GetRssi(p) == -FromBytes(Slice(p, 5, 6))
GetPayload(p) == Slice(p, HeaderSize, Len(p))

(***************************************************************************)
(* PacketManager.send.                                                     *)
(***************************************************************************)
\* the mutant: the license gate is skipped
LicenseMissingNever(lic) == FALSE
\* send, line 67: if self._license == ""
LicenseMissing(lic) == lic = ""

\* What one call of send(d) does, as a record:
\*   ret      "false" (no license), "true", or "raise" (get_rssi raised while
\*            _pack_data built the first header)
\*   counter  the message counter after the call
\*   packets  the list _pack_data returned (<<>> when it did not return)
\* radio.send's return value is dropped by send, so it decides nothing here.
SendCall(d, lic, counter, size, r, rssi) ==
    IF LicenseMissing(lic)
    THEN [ret |-> "false", counter |-> counter, packets |-> <<>>]
    ELSE IF CeilDiv(Len(d), size) >= 1 /\ GetRssiRaises(r)
    THEN [ret |-> "raise", counter |-> Increment(counter), packets |-> <<>>]
    ELSE [ret |-> "true", counter |-> Increment(counter),
          packets |-> PackData(d, size, Increment(counter), rssi)]

\* the mutant: a packet the radio did not send is handed to it a second time
RECURSIVE RadioSendsRetrying(_, _)
RadioSendsRetrying(list, acks) ==
    IF list = <<>> THEN <<>>
    ELSE (IF Head(acks) THEN <<Head(list)>> ELSE <<Head(list), Head(list)>>)
            \o RadioSendsRetrying(Tail(list), Tail(acks))
\* send, lines 75-76: for packet in packets: self._radio.send(packet).  The
\* packets handed to the radio, in call order; acks[i] is what radio.send
\* returned for the i-th packet, which the loop never reads.
RECURSIVE RadioSends(_, _)
RadioSends(list, acks) ==
    IF list = <<>> THEN <<>>
    ELSE <<Head(list)>> \o RadioSends(Tail(list), Tail(acks))

\* one call of PacketManager.send(d) by an application
Send(d) ==
    /\ ops < MaxSends
    /\ LET call == SendCall(d, license, message_counter, payload_size, radio,
                            last_rssi)
       IN  /\ data' = d
           /\ packets' = call.packets
           /\ radio_acks' \in [1..Len(call.packets) -> BOOLEAN]
           /\ air' = RadioSends(call.packets, radio_acks')
           /\ message_counter' = call.counter
           /\ send_result' = call.ret
           /\ spc' = IF call.ret = "raise" THEN "raised" ELSE "returned"
    /\ ops' = ops + 1
    /\ UNCHANGED <<license, payload_size, max_packet_size, radio, last_rssi>>
    /\ UNCHANGED <<listenVars, cdhVars>>
    /\ UNCHANGED codecVars

(***************************************************************************)
(* PacketManager.listen.                                                   *)
(***************************************************************************)
\* insert p into the list sorted by sequence number, after its equals
RECURSIVE InsertBySequence(_, _)
InsertBySequence(sorted, p) ==
    IF sorted = <<>> THEN <<p>>
    ELSE IF GetSequence(p) < GetSequence(Head(sorted))
    THEN <<p>> \o sorted
    ELSE <<Head(sorted)>> \o InsertBySequence(Tail(sorted), p)

\* sorted(packets, key=sequence number): a stable sort
RECURSIVE SortedBySequence(_)
SortedBySequence(list) ==
    IF list = <<>> THEN <<>>
    ELSE InsertBySequence(SortedBySequence(SubSeq(list, 1, Len(list) - 1)),
                          list[Len(list)])

\* the mutant: the payloads are joined in arrival order
UnpackDataUnsorted(list) ==
    Join([i \in 1..Len(list) |-> GetPayload(list[i])])
\* _unpack_data
UnpackData(list) ==
    LET sorted_packets == SortedBySequence(list)
    IN  Join([i \in 1..Len(sorted_packets) |-> GetPayload(sorted_packets[i])])

\* the mutant: every packet is accepted
IsCrossTalkNever(received, p) == FALSE
\* listen, lines 177-185: a packet whose identifier differs from the first
\* accepted packet's is skipped
IsCrossTalk(received, p) ==
    /\ received # <<>>
    /\ GetIdentifier(p) # GetIdentifier(received[1])

\* the mutant: the call completes one packet early
IsCompleteEarly(total_packets, received) == total_packets <= Len(received) + 1
\* listen, line 190: if total_packets == len(received_packets)
IsComplete(total_packets, received) == total_packets = Len(received)

\* the mutant: the timeout returns what has been received so far
TimeoutResultPartial(received) == Some(UnpackData(received))
\* listen, line 158: a bare return
TimeoutResult(received) == None

\* the mutant: the list is kept from the previous call
NewReceivedPacketsKept(previous) == previous
\* listen, line 148: received_packets = []
NewReceivedPackets(previous) == <<>>

\* the mutant: the loop has no deadline
TimedOutNever(e) == FALSE
\* listen, line 153: if time.time() - start_time > _timeout
TimedOut(e) == e > Timeout

\* listen is called: lines 143-148
ListenStart ==
    /\ lpc \in {"idle", "returned"}
    /\ lpc' = "check"
    /\ elapsed' = 0
    /\ received_packets' = NewReceivedPackets(received_packets)
    /\ packet' = None
    /\ listen_result' = None
    /\ UNCHANGED <<on_air, sent_message, framerVars, sendVars, cdhVars, ops>>
    /\ UNCHANGED codecVars

\* the top of the loop, lines 151-158
ListenCheck ==
    /\ lpc = "check"
    /\ IF TimedOut(elapsed)
       THEN /\ lpc' = "returned"
            /\ listen_result' = TimeoutResult(received_packets)
       ELSE /\ lpc' = "recv"
            /\ UNCHANGED listen_result
    /\ UNCHANGED <<elapsed, received_packets, packet, on_air, sent_message>>
    /\ UNCHANGED <<framerVars, sendVars, cdhVars, ops>>
    /\ UNCHANGED codecVars

\* radio.receive returns p, and the rest of the iteration: lines 161-194
Receive(p) ==
    /\ lpc = "recv"
    /\ packet' = p
    /\ IF p = None
       THEN /\ lpc' = "check"
            /\ UNCHANGED <<received_packets, listen_result>>
       ELSE IF IsCrossTalk(received_packets, p[1])
       THEN /\ lpc' = "check"
            /\ UNCHANGED <<received_packets, listen_result>>
       ELSE /\ Len(received_packets) < MaxReceived
            /\ received_packets' = Append(received_packets, p[1])
            /\ IF IsComplete(GetTotal(p[1]), received_packets')
               THEN /\ lpc' = "returned"
                    /\ listen_result' = Some(UnpackData(received_packets'))
               ELSE /\ lpc' = "check"
                    /\ UNCHANGED listen_result
    /\ UNCHANGED <<elapsed, on_air, sent_message>>
    /\ UNCHANGED <<framerVars, sendVars, cdhVars, ops>>
    /\ UNCHANGED codecVars

\* wall-clock time passes while listen runs
Tick ==
    /\ lpc \in {"check", "recv"}
    /\ elapsed <= Timeout
    /\ elapsed' = elapsed + 1
    /\ UNCHANGED <<lpc, received_packets, packet, listen_result, on_air,
                   sent_message>>
    /\ UNCHANGED <<framerVars, sendVars, cdhVars, ops>>
    /\ UNCHANGED codecVars

(***************************************************************************)
(* The binary codec (src/lib/pysquared/binary_encoder.py).                 *)
(*                                                                         *)
(* A Python value is a record [kind, neg, seq]:                            *)
(*   kind "int"    the integer with sign neg and magnitude seq, big-endian *)
(*                 base 256 without leading zero (0 is <<>>, never neg)    *)
(*   kind "str"    the string whose code points are seq                    *)
(*   kind "bytes"  the byte string seq                                     *)
(* so that integers are unbounded, as Python's are.                        *)
(***************************************************************************)
\* b without its leading zero bytes
RECURSIVE Strip(_)
Strip(b) == IF b # <<>> /\ Head(b) = 0 THEN Strip(Tail(b)) ELSE b

\* the magnitude m in n bytes, for Len(m) <= n
Pad(m, n) == [i \in 1..(n - Len(m)) |-> 0] \o m

\* the Python int of a magnitude, and of a number the model can count to
PyNat(b) == [kind |-> "int", neg |-> FALSE, seq |-> Strip(b)]
PyInt(n) == [kind |-> "int", neg |-> n < 0, seq |-> Strip(ToBytes(Abs(n), 4))]
PyStr(codepoints) == [kind |-> "str", neg |-> FALSE, seq |-> codepoints]
PyBytes(b) == [kind |-> "bytes", neg |-> FALSE, seq |-> b]
\* -x
Negated(x) == IF x.seq = <<>> THEN x ELSE [x EXCEPT !.neg = ~x.neg]

\* a < b for byte strings of one length
RECURSIVE LexLess(_, _)
LexLess(a, b) ==
    IF a = <<>> THEN FALSE
    ELSE IF Head(a) # Head(b) THEN Head(a) < Head(b)
    ELSE LexLess(Tail(a), Tail(b))

MagLess(a, b) == Len(a) < Len(b) \/ (Len(a) = Len(b) /\ LexLess(a, b))

\* x < y and x <= y for Python ints
IntLess(x, y) ==
    IF x.neg # y.neg THEN x.neg
    ELSE IF x.neg THEN MagLess(y.seq, x.seq)
    ELSE MagLess(x.seq, y.seq)
IntLeq(x, y) == x = y \/ IntLess(x, y)
\* lo <= v <= hi
Between(lo, v, hi) == IntLeq(lo, v) /\ IntLeq(v, hi)

\* m + 1 and, for m > 0, m - 1 (of the width of m)
RECURSIVE MagSucc(_)
MagSucc(m) ==
    IF m = <<>> THEN <<1>>
    ELSE IF m[Len(m)] < 255 THEN [m EXCEPT ![Len(m)] = @ + 1]
    ELSE Append(MagSucc(SubSeq(m, 1, Len(m) - 1)), 0)
RECURSIVE MagPred(_)
MagPred(m) ==
    IF m[Len(m)] > 0 THEN [m EXCEPT ![Len(m)] = @ - 1]
    ELSE Append(MagPred(SubSeq(m, 1, Len(m) - 1)), 255)

\* the one's complement of a byte string
Complement(b) == [i \in 1..Len(b) |-> 255 - b[i]]

\* 2^31 and 2^63, which the literals of _determine_int_size and size_ranges
\* are made of
TwoTo31 == PyNat(<<128, 0, 0, 0>>)
TwoTo63 == PyNat(<<128, 0, 0, 0, 0, 0, 0, 0>>)
TwoTo63Less1 == PyNat(<<127, 255, 255, 255, 255, 255, 255, 255>>)

\* struct: the size in bytes of a format character, and whether it is signed
FormatSize(fmt) ==
    IF fmt \in {"b", "B"} THEN 1
    ELSE IF fmt \in {"h", "H"} THEN 2
    ELSE IF fmt \in {"i", "I", "f"} THEN 4
    ELSE 8
FormatSigned(fmt) == fmt \in {"b", "h", "i", "q"}

\* the n bytes of v, two's complement when v is negative; for a v that fits
PackBytes(v, n) ==
    IF v.neg THEN Complement(Pad(Strip(MagPred(v.seq)), n)) ELSE Pad(v.seq, n)

\* struct.pack(fmt, v) raises struct.error unless v is in the format's range
PackFits(fmt, v) ==
    LET n == FormatSize(fmt)
    IN  IF FormatSigned(fmt)
        THEN IF v.neg
             THEN /\ Len(Strip(MagPred(v.seq))) <= n
                  /\ Pad(Strip(MagPred(v.seq)), n)[1] < 128
             ELSE Len(v.seq) <= n /\ (v.seq = <<>> \/ Pad(v.seq, n)[1] < 128)
        ELSE ~v.neg /\ Len(v.seq) <= n

\* struct.pack(">" + fmt, v) for an integer format
Pack(fmt, v) == PackBytes(v, FormatSize(fmt))

\* struct.unpack(">" + fmt, b)[0] for an integer format
Unpack(fmt, b) ==
    IF FormatSigned(fmt) /\ b[1] >= 128
    THEN [kind |-> "int", neg |-> TRUE, seq |-> MagSucc(Strip(Complement(b)))]
    ELSE PyNat(b)

\* str.encode("utf-8") of a string of code points below 0x800, one half of
\* the string after the other
RECURSIVE EncodeUtf8(_)
EncodeUtf8(codepoints) ==
    IF codepoints = <<>> THEN <<>>
    ELSE IF Len(codepoints) = 1
    THEN LET c == codepoints[1]
         IN  IF c < 128 THEN <<c>>
             ELSE <<192 + (c \div 64), 128 + (c % 64)>>
    ELSE LET half == Len(codepoints) \div 2
         IN  EncodeUtf8(SubSeq(codepoints, 1, half))
                \o EncodeUtf8(SubSeq(codepoints, half + 1, Len(codepoints)))

\* a continuation byte of UTF-8
IsContinuation(byte) == byte >= 128 /\ byte < 192

\* bytes.decode("utf-8"): Some(code points), or None when it raises
\* UnicodeDecodeError (sequences of three and four bytes are not modelled).
\* The buffer is decoded in two parts that meet at a character boundary.
RECURSIVE DecodeUtf8(_)
DecodeUtf8(b) ==
    IF b = <<>> THEN Some(<<>>)
    ELSE IF Len(b) = 1
    THEN IF b[1] < 128 THEN Some(b) ELSE None
    ELSE IF Len(b) = 2 /\ b[1] >= 128
    THEN IF b[1] >= 194 /\ b[1] < 224 /\ IsContinuation(b[2])
         THEN Some(<<(b[1] - 192) * 64 + (b[2] - 128)>>)
         ELSE None
    ELSE LET half == Len(b) \div 2
             split == IF IsContinuation(b[half + 1]) THEN half + 1 ELSE half
             left == DecodeUtf8(SubSeq(b, 1, split))
             right == DecodeUtf8(SubSeq(b, split + 1, Len(b)))
         IN  IF left = None \/ right = None THEN None
             ELSE Some(left[1] \o right[1])

\* ---- BinaryEncoder ----------------------------------------------------
\* the field names of the model and hash(key) & 0xFFFFFFFF of each, as the
\* four bytes struct.pack(">I", key_hash) writes; the names hash distinctly
Keys == {"temperature", "battery_level"}
KeyHash(key) ==
    IF key = "temperature" THEN <<18, 52, 86, 120>> ELSE <<154, 188, 222, 240>>
\* f"field_{key_hash:08x}"
FieldName(key_hash) ==
    IF key_hash = <<18, 52, 86, 120>> THEN "field_12345678"
    ELSE IF key_hash = <<154, 188, 222, 240>> THEN "field_9abcdef0"
    ELSE "field_????????"

\* d[key] = value for a dict kept as the list of its items in insertion order
RECURSIVE DictSet(_, _, _)
DictSet(items, key, value) ==
    IF items = <<>> THEN <<[key |-> key, value |-> value]>>
    ELSE IF Head(items).key = key
    THEN <<[key |-> key, value |-> value]>> \o Tail(items)
    ELSE <<Head(items)>> \o DictSet(Tail(items), key, value)
\* d.get(key, default)
RECURSIVE DictGet(_, _, _)
DictGet(items, key, default) ==
    IF items = <<>> THEN default
    ELSE IF Head(items).key = key THEN Head(items).value
    ELSE DictGet(Tail(items), key, default)

\* the mutant: the smallest size that holds the value, signed or unsigned
DetermineIntSizeOptimal(value) ==
    IF Between(PyInt(-128), value, PyInt(255)) THEN 1
    ELSE IF Between(PyInt(-32768), value, PyInt(65535)) THEN 2
    ELSE IF Between(Negated(TwoTo31), value, PyNat(<<255, 255, 255, 255>>))
    THEN 4
    ELSE 8
\* _determine_int_size
DetermineIntSize(value) ==
    IF Between(PyInt(-128), value, PyInt(255)) THEN 1
    ELSE IF Between(PyInt(-32768), value, PyInt(32767)) THEN 2
    ELSE IF Between(Negated(TwoTo31), value, PyInt(2147483647)) THEN 4
    ELSE 8

\* size_ranges of _get_int_format: (min_val, max_val, signed_fmt, unsigned_fmt)
SizeRanges(size) ==
    IF size = 1 THEN <<PyInt(-128), PyInt(127), "b", "B">>
    ELSE IF size = 2 THEN <<PyInt(-32768), PyInt(32767), "h", "H">>
    ELSE IF size = 4 THEN <<Negated(TwoTo31), PyInt(2147483647), "i", "I">>
    ELSE <<Negated(TwoTo63), TwoTo63Less1, "q", "Q">>

\* _get_int_format raises ValueError: if size not in size_ranges
GetIntFormatRaises(size) == size \notin {1, 2, 4, 8}
\* _get_int_format
GetIntFormat(size, value) ==
    LET r == SizeRanges(size)
    IN  IF Between(r[1], value, r[2]) THEN r[3] ELSE r[4]

\* _get_integer_type_info(fmt)["type_id"]
GetIntegerTypeInfo(fmt) ==
    IF fmt = "b" THEN 1 ELSE IF fmt = "B" THEN 11
    ELSE IF fmt = "h" THEN 2 ELSE IF fmt = "H" THEN 12
    ELSE IF fmt = "i" THEN 3 ELSE IF fmt = "I" THEN 13
    ELSE IF fmt = "q" THEN 4 ELSE 14

\* the mutant: the length is counted in characters
AddStringRaisesByCharacters(value, max_length) == Len(value.seq) > max_length
\* add_string raises ValueError: if len(encoded_value) > max_length
AddStringRaises(value, max_length) == Len(EncodeUtf8(value.seq)) > max_length

\* _encode_field raises struct.error: struct.pack(">B", len(byte_value)) for a
\* string of more than 255 bytes, struct.pack(">IB" + fmt, ...) for an integer
\* outside the format's range
EncodeFieldRaises(fmt, value) ==
    IF fmt = "s" THEN Len(value.seq) > 255 ELSE ~PackFits(fmt, value)

\* _encode_field, with _encode_string_field and _encode_integer_field
EncodeField(key_hash, fmt, value) ==
    IF fmt = "s"
    THEN key_hash \o <<0>> \o <<Len(value.seq) % 256>> \o value.seq
    ELSE key_hash \o <<GetIntegerTypeInfo(fmt)>> \o Pack(fmt, value)

\* to_bytes over the items left: the bytes so far, the key map so far, and
\* whether _encode_field raised
RECURSIVE ToBytesLoop(_, _, _)
ToBytesLoop(items, result, key_map) ==
    IF items = <<>>
    THEN [raised |-> FALSE, bytes |-> result, key_map |-> key_map]
    ELSE LET key == Head(items).key
             fmt == Head(items).value[1]
             value == Head(items).value[2]
             recorded == DictSet(key_map, KeyHash(key), key)
         IN  IF EncodeFieldRaises(fmt, value)
             THEN [raised |-> TRUE, bytes |-> <<>>, key_map |-> recorded]
             ELSE ToBytesLoop(Tail(items),
                              result \o EncodeField(KeyHash(key), fmt, value),
                              recorded)

\* ---- BinaryDecoder ----------------------------------------------------
\* type_formats of _decode_field: the format of a numeric type id
TypeIds == {1, 2, 3, 4, 5, 6, 11, 12, 13, 14}
TypeFormat(data_type) ==
    IF data_type = 1 THEN "b" ELSE IF data_type = 2 THEN "h"
    ELSE IF data_type = 3 THEN "i" ELSE IF data_type = 4 THEN "q"
    ELSE IF data_type = 5 THEN "f" ELSE IF data_type = 6 THEN "d"
    ELSE IF data_type = 11 THEN "B" ELSE IF data_type = 12 THEN "H"
    ELSE IF data_type = 13 THEN "I" ELSE "Q"

\* what _decode_field returns
Failed == [raised |-> FALSE, value |-> None, consumed |-> 0]
Decoded(value, consumed) ==
    [raised |-> FALSE, value |-> Some(value), consumed |-> consumed]

\* the mutant: the payload is not checked against the end of the buffer
DecodeFieldUnchecked(d, offset, data_type) ==
    IF data_type = 0
    THEN IF offset + 1 > Len(d) THEN Failed
         ELSE LET str_len == d[offset + 1]
                  text == DecodeUtf8(Slice(d, offset + 1, offset + 1 + str_len))
              IN  IF text = None
                  THEN [raised |-> TRUE, value |-> None, consumed |-> 0]
                  ELSE Decoded(PyStr(text[1]), 1 + str_len)
    ELSE IF data_type \in TypeIds /\ offset + 1 <= Len(d)
    THEN LET fmt == TypeFormat(data_type)
             size == FormatSize(fmt)
         IN  Decoded(Unpack(fmt, Slice(d, offset, offset + size)), size)
    ELSE Failed
\* _decode_field(data, offset, data_type): (value, consumed), (None, 0) when
\* the field cannot be decoded; raised when bytes.decode raises
DecodeField(d, offset, data_type) ==
    IF data_type = 0
    THEN IF offset + 1 > Len(d) THEN Failed
         ELSE LET str_len == d[offset + 1]
              IN  IF offset + 1 + str_len > Len(d) THEN Failed
                  ELSE LET text == DecodeUtf8(Slice(d, offset + 1,
                                                    offset + 1 + str_len))
                       IN  IF text = None
                           THEN [raised |-> TRUE, value |-> None,
                                 consumed |-> 0]
                           ELSE Decoded(PyStr(text[1]), 1 + str_len)
    ELSE IF data_type \in TypeIds
    THEN LET fmt == TypeFormat(data_type)
             size == FormatSize(fmt)
         IN  IF offset + size > Len(d) THEN Failed
             ELSE IF fmt \in {"f", "d"}
             THEN Decoded([kind |-> "float", neg |-> FALSE,
                           seq |-> Slice(d, offset, offset + size)], size)
             ELSE Decoded(Unpack(fmt, Slice(d, offset, offset + size)), size)
    ELSE Failed

\* _parse from offset on: the dict so far, and whether an exception left it
RECURSIVE Parse(_, _, _, _)
Parse(d, offset, key_map, fields) ==
    IF ~(offset < Len(d)) \/ offset + 5 > Len(d)
    THEN [raised |-> FALSE, data |-> fields]
    ELSE LET key_hash == Slice(d, offset, offset + 4)
             data_type == d[offset + 5]
             key_name == DictGet(key_map, key_hash, FieldName(key_hash))
             field == DecodeField(d, offset + 5, data_type)
         IN  IF field.raised THEN [raised |-> TRUE, data |-> fields]
             ELSE IF field.value = None
             THEN [raised |-> FALSE, data |-> fields]
             ELSE Parse(d, offset + 5 + field.consumed, key_map,
                        DictSet(fields, key_name, field.value[1]))

\* ---- the calls -----------------------------------------------------------
codecFrame == UNCHANGED <<framerVars, sendVars, listenVars, cdhVars, ops>>

\* add_int(key, value, size); size is None or Some(n)
AddInt(key, value, size) ==
    /\ kpc = "adding"
    /\ enc_calls < MaxInsertions
    /\ enc_calls' = enc_calls + 1
    /\ enc_call' = [op |-> "add_int", key |-> key, value |-> value,
                    size |-> size]
    /\ LET sz == IF size = None THEN DetermineIntSize(value) ELSE size[1]
       IN  IF GetIntFormatRaises(sz)
           THEN /\ enc_raised' = "ValueError"
                /\ UNCHANGED <<enc_data, inserted>>
           ELSE /\ enc_raised' = "none"
                /\ enc_data' = DictSet(enc_data, key,
                                       <<GetIntFormat(sz, value), value>>)
                /\ inserted' = [inserted EXCEPT ![key] = Some(value)]
    /\ UNCHANGED <<kpc, enc_key_map, blob, dec_input, decoded>>
    /\ codecFrame

\* add_string(key, value, max_length)
AddString(key, value, max_length) ==
    /\ kpc = "adding"
    /\ enc_calls < MaxInsertions
    /\ enc_calls' = enc_calls + 1
    /\ enc_call' = [op |-> "add_string", key |-> key, value |-> value,
                    size |-> Some(max_length)]
    /\ IF AddStringRaises(value, max_length)
       THEN /\ enc_raised' = "ValueError"
            /\ UNCHANGED <<enc_data, inserted>>
       ELSE /\ enc_raised' = "none"
            /\ enc_data' = DictSet(enc_data, key,
                                   <<"s", PyBytes(EncodeUtf8(value.seq))>>)
            /\ inserted' = [inserted EXCEPT ![key] = Some(value)]
    /\ UNCHANGED <<kpc, enc_key_map, blob, dec_input, decoded>>
    /\ codecFrame

\* to_bytes()
ToBytesCall ==
    /\ kpc = "adding"
    /\ LET r == ToBytesLoop(enc_data, <<>>, enc_key_map)
       IN  /\ kpc' = IF r.raised THEN "failed" ELSE "serialized"
           /\ blob' = r.bytes
           /\ enc_key_map' = r.key_map
    /\ UNCHANGED <<enc_data, enc_call, enc_raised, enc_calls, inserted,
                   dec_input, decoded>>
    /\ codecFrame

\* the offset of the type byte of the j-th record to_bytes wrote
RECURSIVE TypeOffset(_, _)
TypeOffset(items, j) ==
    IF j = 1 THEN 4
    ELSE Len(EncodeField(KeyHash(Head(items).key), Head(items).value[1],
                         Head(items).value[2]))
            + TypeOffset(Tail(items), j - 1)

\* type ids that _decode_field does not know
UnknownTypeIds == {7, 255}

\* BinaryDecoder(buffer, key_map) with the encoder's key map, where buffer is
\* the first k bytes to_bytes returned, the type byte of record j replaced by
\* an unknown type id when j > 0
Decode(k, j, type_id) ==
    /\ kpc = "serialized"
    /\ k \in 0..Len(blob)
    /\ j \in 0..Len(enc_data)
    /\ j > 0 => TypeOffset(enc_data, j) < k
    /\ LET cut == Slice(blob, 0, k)
           buffer == IF j = 0 THEN cut
                     ELSE [cut EXCEPT ![TypeOffset(enc_data, j) + 1] = type_id]
           r == Parse(buffer, 0, enc_key_map, <<>>)
       IN  /\ dec_input' = buffer
           /\ decoded' = r.data
           /\ kpc' = IF r.raised THEN "decode_raised" ELSE "decoded"
    /\ UNCHANGED <<enc_data, enc_key_map, enc_call, enc_raised, enc_calls,
                   inserted, blob>>
    /\ codecFrame

(***************************************************************************)
(* Initial states.                                                         *)
(***************************************************************************)
\* the license strings of the model: none, and one call sign
Licenses == {"", "KK7ABC"}
\* the values the NVM counter starts from: fresh, and just before rollover
CounterStarts == {0, 254}

\* the elements of a list
Range(list) == {list[i] : i \in 1..Len(list)}

\* PacketManager.__init__ over a radio of class r whose packets hold
\* HeaderSize + 1 .. HeaderSize + MaxPayload bytes
FramerInit(r) ==
    /\ license \in Licenses
    /\ message_counter \in CounterStarts
    /\ max_packet_size \in (HeaderSize + 1)..(HeaderSize + MaxPayload)
    /\ payload_size = max_packet_size - HeaderSize
    /\ radio = r
    /\ last_rssi = -90

SendIdle ==
    /\ spc = "idle"
    /\ data = <<>>
    /\ packets = <<>>
    /\ air = <<>>
    /\ send_result = "none"
    /\ radio_acks = <<>>

ListenIdle ==
    /\ lpc = "idle"
    /\ elapsed = 0
    /\ received_packets = <<>>
    /\ packet = None
    /\ listen_result = None
    /\ on_air = {}
    /\ sent_message = <<>>

CodecIdle ==
    /\ kpc = "adding"
    /\ enc_data = <<>>
    /\ enc_key_map = <<>>
    /\ enc_call = [op |-> "none", key |-> "", value |-> PyInt(0),
                   size |-> None]
    /\ enc_raised = "none"
    /\ enc_calls = 0
    /\ inserted = [key \in Keys |-> None]
    /\ blob = <<>>
    /\ dec_input = <<>>
    /\ decoded = <<>>

CdhIdle ==
    /\ cpc = "idle"
    /\ json_bytes = None
    /\ msg = None
    /\ cmd = None
    /\ args = <<>>
    /\ exc = "none"
    /\ events = <<>>
    /\ jokes = <<>>
    /\ modulation = "LoRa"
    /\ saved_modulation = "LoRa"
    /\ start_modulation = <<"LoRa", "LoRa">>

(***************************************************************************)
(* SpecSend: an application calls PacketManager.send.                      *)
(***************************************************************************)
InitSend ==
    /\ \E r \in {"RFM9xManager"} : FramerInit(r)
    /\ SendIdle /\ ListenIdle /\ CdhIdle /\ CodecIdle
    /\ ops = 0

NextSend == \E d \in BytesOfLen(0, MaxLen) : Send(d)

SpecSend == InitSend /\ [][NextSend]_vars

(***************************************************************************)
(* SpecListen: an application calls PacketManager.listen while a peer's    *)
(* message and a foreign message are on the air.  The radio delivers their *)
(* packets in any order, any number of times, or not at all.               *)
(***************************************************************************)
\* the identifiers the two senders on the air use
PeerIdentifier == 1
ForeignIdentifier == 2
\* the foreign sender's message
ForeignMessage == <<1, 0>>

InitListen ==
    /\ \E r \in {"RFM9xManager"} : FramerInit(r)
    /\ license = "KK7ABC"
    /\ message_counter = 0
    /\ SendIdle /\ CdhIdle /\ CodecIdle
    /\ lpc = "idle"
    /\ elapsed = 0
    /\ received_packets = <<>>
    /\ packet = None
    /\ listen_result = None
    /\ sent_message \in BytesOfLen(0, MaxLen)
    /\ on_air = Range(PackData(sent_message, payload_size, PeerIdentifier,
                               last_rssi))
                \cup Range(PackData(ForeignMessage, payload_size,
                                    ForeignIdentifier, last_rssi))
    /\ ops = 0

NextListen ==
    \/ ListenStart
    \/ ListenCheck
    \/ \E p \in {Some(q) : q \in on_air} \cup {None} : Receive(p)
    \/ Tick

SpecListen == InitListen /\ [][NextListen]_vars

\* The same system where the thread inside listen keeps running, every
\* radio.receive call returns, and the wall clock advances while listen runs.
SpecListenFair ==
    /\ SpecListen
    /\ WF_vars(ListenCheck)
    /\ WF_vars(\E p \in {Some(q) : q \in on_air} \cup {None} : Receive(p))
    /\ WF_vars(Tick)

(***************************************************************************)
(* CommandDataHandler (src/lib/pysquared/cdh.py).                          *)
(*                                                                         *)
(* A received message is described by what json_bytes.decode and           *)
(* json.loads make of it:                                                  *)
(*   kind      "not_utf8"   decode raises UnicodeError                     *)
(*             "not_json"   json.loads raises ValueError                   *)
(*             "not_object" json.loads returns a list, number, string ...  *)
(*             "object"     json.loads returns a dict                      *)
(*   password, name, command   None when the key is missing, else Some(s)  *)
(*   args      None when the key is missing, Some(<<"str", s>>) for a      *)
(*             value that is no list, Some(<<"list", l>>) for a list       *)
(* A text is a tuple of its pieces, a fixed phrase and what is formatted   *)
(* into it; a text and its UTF-8 bytes are not told apart.                  *)
(***************************************************************************)
\* Config.super_secret_code and Config.cubesat_name
SuperSecretCode == "hunter2"
CubesatName == "PROVES"

\* the class attributes command_reset, command_change_radio_modulation and
\* command_send_joke
CommandReset == "reset"
CommandChangeRadioModulation == "change_radio_modulation"
CommandSendJoke == "send_joke"

Passwords == {None, Some(SuperSecretCode), Some("guess")}
Names == {None, Some(CubesatName), Some("OtherSat")}
Commands == {None, Some(CommandReset), Some(CommandChangeRadioModulation),
             Some(CommandSendJoke), Some("launch_missiles")}
ArgValues == {None, Some(<<"str", "FSK">>), Some(<<"list", <<>>>>),
              Some(<<"list", <<"FSK">>>>), Some(<<"list", <<"LoRa">>>>),
              Some(<<"list", <<"GFSK", "FSK">>>>)}

Unparsed(k) ==
    [kind |-> k, password |-> None, name |-> None, command |-> None,
     args |-> None]

\* the messages PacketManager.listen can return
Inbox ==
    {Unparsed(k) : k \in {"not_utf8", "not_json", "not_object"}}
    \cup {m \in [kind : {"object"}, password : Passwords, name : Names,
                 command : Commands, args : ArgValues] :
            m.args = None \/ m.command = Some(CommandChangeRadioModulation)}

\* the mutant: decode never raises (undecodable bytes are replaced)
DecodeRaisesNever(m) == "none"
\* json_bytes.decode("utf-8"), line 70: the exception it raises, if any
DecodeRaises(m) == IF m.kind = "not_utf8" THEN "UnicodeError" ELSE "none"
\* json.loads(json_str), line 72: the exception it raises, if any
LoadsRaises(m) == IF m.kind = "not_json" THEN "ValueError" ELSE "none"
\* msg.get(...) on a value that is no dict raises AttributeError
GetRaises(m) == IF m.kind # "object" THEN "AttributeError" ELSE "none"

\* the mutant: the password is checked only when the message has one
PasswordMismatchIfPresent(m) ==
    m.password # None /\ m.password # Some(SuperSecretCode)
\* line 75: msg.get("password") != self._config.super_secret_code
PasswordMismatch(m) == m.password # Some(SuperSecretCode)

\* the mutant: the name is not checked
NameMismatchNever(m) == FALSE
\* line 82: msg.get("name") != self._config.cubesat_name
NameMismatch(m) == m.name # Some(CubesatName)

\* the mutant: a value that is no list is taken as the one argument
ArgsOfCoerced(m) ==
    IF m.args = None THEN <<>>
    ELSE IF m.args[1][1] = "list" THEN m.args[1][2]
    ELSE <<m.args[1][2]>>
\* lines 98-101: args is raw_args when that is a list, else []
ArgsOf(m) ==
    IF m.args # None /\ m.args[1][1] = "list" THEN m.args[1][2] ELSE <<>>

\* the texts the handler sends
AckText == <<"ACK">>
\* the mutant: a missing command is answered like an unknown command
NoCommandTextAsUnknown == <<"Unknown command received: ", "None">>
\* line 93: f"No command found in message: {msg}"
NoCommandText == <<"No command found in message: ", "{msg}">>
ResetText == <<"Resetting satellite">>
NoModulationText ==
    <<"No modulation specified. Please provide a modulation type.">>
ModulationChangedText(m) == <<"Radio modulation changed: ", m>>
ModulationFailedText(e) == <<"Failed to change radio modulation: ", e>>
\* the mutant: the response does not name the command
UnknownCommandTextBare(c) == <<"Unknown command received: ", "">>
UnknownCommandText(c) == <<"Unknown command received: ", c>>
ErrorText(e) == <<"Failed to process command message: ", e>>

\* the mutant: a command the handler does not know resets the device
HandlerResetByDefault(c) ==
    IF c = CommandChangeRadioModulation THEN "change_radio_modulation"
    ELSE IF c = CommandSendJoke THEN "send_joke"
    ELSE "reset"
\* the mutant: send_joke is not dispatched
HandlerWithoutJoke(c) ==
    IF c = CommandReset THEN "reset"
    ELSE IF c = CommandChangeRadioModulation THEN "change_radio_modulation"
    ELSE "unknown"
\* lines 109-119: the branch the command takes
Handler(c) ==
    IF c = CommandReset THEN "reset"
    ELSE IF c = CommandChangeRadioModulation THEN "change_radio_modulation"
    ELSE IF c = CommandSendJoke THEN "send_joke"
    ELSE "unknown"

\* RadioConfig.validate("modulation", value): the exception it raises, if any.
\* The allowed_values test raises TypeError; a str in the list passes the type
\* test, and the range tests apply to int, float and bytes only.
ValidateModulationRaises(value) ==
    IF value \notin {"LoRa", "FSK"} THEN "TypeError" ELSE "none"

\* what PacketManager.send(d) does when the handler calls it now
CdhCall(d) ==
    SendCall(d, license, message_counter, payload_size, radio, last_rssi)
SendEvent(d) == [op |-> "send", data |-> d, ret |-> CdhCall(d).ret]
ResetEvent == [op |-> "reset", data |-> <<>>, ret |-> "none"]
UpdateEvent(value) ==
    [op |-> "update_config", data |-> <<value>>, ret |-> "none"]

\* the mutant: every message is sent twice
CdhSendRepeated(d, next) ==
    /\ events' = events \o <<SendEvent(d), SendEvent(d)>>
    /\ message_counter' = CdhCall(d).counter
    /\ air' = air \o CdhCall(d).packets \o CdhCall(d).packets
    /\ IF CdhCall(d).ret = "raise"
       THEN cpc' = "except" /\ exc' = "NotImplementedError"
       ELSE cpc' = next /\ UNCHANGED exc
\* self._packet_manager.send(d) inside the try block: the counter, the radio
\* and the log of the cycle; an exception leaves for the except clause
CdhSend(d, next) ==
    /\ events' = Append(events, SendEvent(d))
    /\ message_counter' = CdhCall(d).counter
    /\ air' = air \o CdhCall(d).packets
    /\ IF CdhCall(d).ret = "raise"
       THEN cpc' = "except" /\ exc' = "NotImplementedError"
       ELSE cpc' = next /\ UNCHANGED exc

cdhFrame ==
    /\ UNCHANGED <<license, payload_size, max_packet_size, radio, last_rssi>>
    /\ UNCHANGED <<spc, data, packets, send_result, radio_acks>>
    /\ UNCHANGED <<listenVars, ops, jokes, start_modulation>>
    /\ UNCHANGED codecVars

\* lines 63-67: listen_for_commands is called and PacketManager.listen returns
\* m (None, or a reassembled message)
CdhListen(m) ==
    /\ cpc \in {"idle", "returned"}
    /\ ops < MaxCycles
    /\ ops' = ops + 1
    /\ json_bytes' = m
    /\ msg' = None
    /\ cmd' = None
    /\ args' = <<>>
    /\ exc' = "none"
    /\ events' = <<>>
    /\ air' = <<>>
    /\ cpc' = IF m = None THEN "returned" ELSE "parse"
    /\ start_modulation' = <<modulation, saved_modulation>>
    /\ UNCHANGED <<framerVars, listenVars, jokes, modulation, saved_modulation>>
    /\ UNCHANGED <<spc, data, packets, send_result, radio_acks>>
    /\ UNCHANGED codecVars

\* lines 70-72: decode and json.loads
CdhParse ==
    /\ cpc = "parse"
    /\ IF DecodeRaises(json_bytes[1]) # "none"
       THEN cpc' = "except" /\ exc' = DecodeRaises(json_bytes[1])
                /\ UNCHANGED msg
       ELSE IF LoadsRaises(json_bytes[1]) # "none"
       THEN cpc' = "except" /\ exc' = LoadsRaises(json_bytes[1])
                /\ UNCHANGED msg
       ELSE cpc' = "auth" /\ msg' = json_bytes /\ UNCHANGED exc
    /\ UNCHANGED <<json_bytes, cmd, args, events, modulation, saved_modulation,
                   message_counter, air>>
    /\ cdhFrame

\* lines 75-87: the password and the name
CdhAuthenticate ==
    /\ cpc = "auth"
    /\ IF GetRaises(msg[1]) # "none"
       THEN cpc' = "except" /\ exc' = GetRaises(msg[1])
       ELSE IF PasswordMismatch(msg[1]) \/ NameMismatch(msg[1])
       THEN cpc' = "returned" /\ UNCHANGED exc
       ELSE cpc' = "validate" /\ UNCHANGED exc
    /\ UNCHANGED <<json_bytes, msg, cmd, args, events, modulation,
                   saved_modulation, message_counter, air>>
    /\ cdhFrame

\* lines 90-103: the command and its arguments
CdhValidate ==
    /\ cpc = "validate"
    /\ cmd' = msg[1].command
    /\ IF msg[1].command = None
       THEN /\ CdhSend(NoCommandText, "returned")
            /\ UNCHANGED args
       ELSE /\ args' = ArgsOf(msg[1])
            /\ cpc' = "ack"
            /\ UNCHANGED <<exc, events, message_counter, air>>
    /\ UNCHANGED <<json_bytes, msg, modulation, saved_modulation>>
    /\ cdhFrame

\* lines 106-107: send_acknowledgement
CdhAcknowledge ==
    /\ cpc = "ack"
    /\ CdhSend(AckText, "dispatch")
    /\ UNCHANGED <<json_bytes, msg, cmd, args, modulation, saved_modulation>>
    /\ cdhFrame

\* reset(), lines 167-172: the farewell, then microcontroller.reset(), which
\* does not return
CdhReset ==
    /\ cpc = "dispatch"
    /\ Handler(cmd[1]) = "reset"
    /\ message_counter' = CdhCall(ResetText).counter
    /\ air' = air \o CdhCall(ResetText).packets
    /\ IF CdhCall(ResetText).ret = "raise"
       THEN /\ events' = Append(events, SendEvent(ResetText))
            /\ cpc' = "except"
            /\ exc' = "NotImplementedError"
       ELSE /\ events' = events \o <<SendEvent(ResetText), ResetEvent>>
            /\ cpc' = "reset"
            /\ UNCHANGED exc
    /\ UNCHANGED <<json_bytes, msg, cmd, args, modulation, saved_modulation>>
    /\ cdhFrame

\* change_radio_modulation(args), lines 136-165, with Config.update_config
\* ("modulation", args[0], temporary=False)
CdhChangeRadioModulation ==
    /\ cpc = "dispatch"
    /\ Handler(cmd[1]) = "change_radio_modulation"
    /\ IF Len(args) < 1
       THEN /\ CdhSend(NoModulationText, "returned")
            /\ UNCHANGED <<modulation, saved_modulation>>
       ELSE IF ValidateModulationRaises(args[1]) # "none"
       THEN /\ cpc' = "except"
            /\ exc' = ValidateModulationRaises(args[1])
            /\ UNCHANGED <<events, message_counter, air, modulation,
                           saved_modulation>>
       ELSE /\ saved_modulation' = args[1]
            /\ modulation' = args[1]
            /\ LET d == ModulationChangedText(args[1])
               IN  /\ events' = events \o <<UpdateEvent(args[1]), SendEvent(d)>>
                   /\ message_counter' = CdhCall(d).counter
                   /\ air' = air \o CdhCall(d).packets
                   /\ IF CdhCall(d).ret = "raise"
                      THEN cpc' = "except" /\ exc' = "NotImplementedError"
                      ELSE cpc' = "returned" /\ UNCHANGED exc
    /\ UNCHANGED <<json_bytes, msg, cmd, args>>
    /\ cdhFrame

\* send_joke(), lines 130-134: random.choice(self._config.jokes)
CdhSendJoke ==
    /\ cpc = "dispatch"
    /\ Handler(cmd[1]) = "send_joke"
    /\ \E i \in 1..Len(jokes) : CdhSend(<<jokes[i]>>, "returned")
    /\ UNCHANGED <<json_bytes, msg, cmd, args, modulation, saved_modulation>>
    /\ cdhFrame

\* lines 115-119: any other command
CdhUnknownCommand ==
    /\ cpc = "dispatch"
    /\ Handler(cmd[1]) = "unknown"
    /\ CdhSend(UnknownCommandText(cmd[1]), "returned")
    /\ UNCHANGED <<json_bytes, msg, cmd, args, modulation, saved_modulation>>
    /\ cdhFrame

\* lines 121-128: the except clause sends the error report; this send is not
\* protected, so an exception it raises leaves listen_for_commands
CdhExcept ==
    /\ cpc = "except"
    /\ events' = Append(events, SendEvent(ErrorText(exc)))
    /\ message_counter' = CdhCall(ErrorText(exc)).counter
    /\ air' = air \o CdhCall(ErrorText(exc)).packets
    /\ cpc' = IF CdhCall(ErrorText(exc)).ret = "raise"
              THEN "raised" ELSE "returned"
    /\ UNCHANGED <<json_bytes, msg, cmd, args, exc, modulation,
                   saved_modulation>>
    /\ cdhFrame

\* the joke lists of the model
JokeLists == {<<"knock knock">>, <<"knock knock", "why did the chicken">>}

InitCdh(radios) ==
    /\ \E r \in radios : FramerInit(r)
    /\ message_counter = 0
    /\ payload_size = MaxPayload
    /\ SendIdle /\ ListenIdle /\ CodecIdle
    /\ cpc = "idle"
    /\ json_bytes = None
    /\ msg = None
    /\ cmd = None
    /\ args = <<>>
    /\ exc = "none"
    /\ events = <<>>
    /\ jokes \in JokeLists
    /\ modulation \in {"LoRa", "FSK"}
    /\ saved_modulation = modulation
    /\ start_modulation = <<modulation, saved_modulation>>
    /\ ops = 0

NextCdh ==
    \/ \E m \in {None} \cup {Some(x) : x \in Inbox} : CdhListen(m)
    \/ CdhParse
    \/ CdhAuthenticate
    \/ CdhValidate
    \/ CdhAcknowledge
    \/ CdhReset
    \/ CdhChangeRadioModulation
    \/ CdhSendJoke
    \/ CdhUnknownCommand
    \/ CdhExcept

(***************************************************************************)
(* Spec: the command cycle over the RFM9x radio, whose manager implements  *)
(* every method of RadioProto.                                             *)
(***************************************************************************)
Init == InitCdh({"RFM9xManager"})
Next == NextCdh
Spec == Init /\ [][Next]_vars

(***************************************************************************)
(* SpecAnyRadio: the command cycle over any radio manager of the           *)
(* repository.                                                             *)
(***************************************************************************)
InitAnyRadio == InitCdh(RadioManagers)
SpecAnyRadio == InitAnyRadio /\ [][Next]_vars

(***************************************************************************)
(* SpecResize: an application calls PacketManager.send while the radio     *)
(* driver's max_packet_length, which get_max_packet_size reads at every    *)
(* call, takes another value.                                              *)
(***************************************************************************)
\* radio.get_max_packet_size() reports n from now on
MaxPacketLengthChanges(n) ==
    /\ n # max_packet_size
    /\ max_packet_size' = n
    /\ UNCHANGED <<license, message_counter, payload_size, radio, last_rssi>>
    /\ UNCHANGED <<sendVars, listenVars, cdhVars, ops>>
    /\ UNCHANGED codecVars

NextResize ==
    \/ \E d \in BytesOfLen(0, MaxLen) : Send(d)
    \/ \E n \in (HeaderSize + 1)..(HeaderSize + MaxPayload) :
            MaxPacketLengthChanges(n)

SpecResize == InitSend /\ [][NextResize]_vars

(***************************************************************************)
(* SpecCodec: a caller fills a BinaryEncoder, serializes it and hands a    *)
(* prefix of the bytes, or the bytes with one type byte damaged, to a      *)
(* BinaryDecoder.                                                          *)
(***************************************************************************)
\* a string of n characters c
Repeat(c, n) == [i \in 1..n |-> c]

\* 3000000000
ThreeBillion == PyNat(<<178, 208, 94, 0>>)

\* the (value, size) pairs handed to add_int
CodecInts ==
    {<<PyInt(200), None>>, <<PyInt(-5), None>>, <<PyInt(40000), None>>,
     <<Negated(ThreeBillion), None>>,
     <<PyInt(5), Some(4)>>, <<PyInt(-5), Some(8)>>, <<PyInt(300), Some(2)>>,
     <<PyInt(300), Some(1)>>, <<PyInt(-200), Some(1)>>,
     <<PyInt(5), Some(3)>>, <<PyInt(5), Some(0)>>}

\* the (value, max_length) pairs handed to add_string: "", "hi", "h" and
\* e-acute, 255 and 256 times "a"
CodecStrings ==
    {<<PyStr(<<>>), 255>>, <<PyStr(<<104, 105>>), 255>>,
     <<PyStr(<<104, 233>>), 255>>, <<PyStr(<<104, 233>>), 2>>,
     <<PyStr(Repeat(97, 255)), 255>>, <<PyStr(Repeat(97, 256)), 255>>,
     <<PyStr(Repeat(97, 256)), 300>>}

InitCodec ==
    /\ \E r \in {"RFM9xManager"} : FramerInit(r)
    /\ license = "KK7ABC"
    /\ message_counter = 0
    /\ max_packet_size = HeaderSize + MaxPayload
    /\ SendIdle /\ ListenIdle /\ CdhIdle /\ CodecIdle
    /\ ops = 0

NextCodec ==
    \/ \E key \in Keys, c \in CodecInts : AddInt(key, c[1], c[2])
    \/ \E key \in Keys, c \in CodecStrings : AddString(key, c[1], c[2])
    \/ ToBytesCall
    \/ \E k \in 0..Len(blob), j \in 0..Len(enc_data), t \in UnknownTypeIds :
        /\ k <= MaxCut \/ Len(blob) - k <= MaxCut
        /\ Decode(k, j, t)

SpecCodec == InitCodec /\ [][NextCodec]_vars

(***************************************************************************)
(* SpecSizing: add_int without a size, on the values around the limits of  *)
(* the integer formats, then to_bytes and BinaryDecoder on all the bytes.   *)
(***************************************************************************)
\* 2^7, 2^8, 2^15, 2^16, 2^31, 2^32, 2^63 and 2^64 as magnitudes
Limits ==
    {<<128>>, <<1, 0>>, <<128, 0>>, <<1, 0, 0>>, <<128, 0, 0, 0>>,
     <<1, 0, 0, 0, 0>>, <<128, 0, 0, 0, 0, 0, 0, 0>>,
     <<1, 0, 0, 0, 0, 0, 0, 0, 0>>}

SizingValues ==
    UNION {{PyNat(m), PyNat(MagPred(m)), PyNat(MagSucc(m)),
            Negated(PyNat(m)), Negated(PyNat(MagPred(m))),
            Negated(PyNat(MagSucc(m)))} : m \in Limits}
    \cup {PyInt(0), PyInt(200), PyInt(-5), PyInt(40000), ThreeBillion,
          Negated(ThreeBillion)}

NextSizing ==
    \/ \E v \in SizingValues : AddInt("temperature", v, None)
    \/ ToBytesCall
    \/ Decode(Len(blob), 0, 0)

SpecSizing == InitCodec /\ [][NextSizing]_vars

(***************************************************************************)
(* Claims about the Packet Framer.                                         *)
(***************************************************************************)
\* the packet of the list that carries sequence number k
PacketWithSequence(list, k) ==
    CHOOSE q \in Range(list) : GetSequence(q) = k

\* C1: for every byte string of length L >= 0 and payload capacity P >= 1,
\* _pack_data produces exactly ceil(L/P) packets (the least n with n*P >= L),
\* all carrying the same identifier and the same total, with the sequence
\* numbers 0..total-1 each exactly once, and the payloads concatenated in
\* sequence order are the original L bytes.
C1_PackData ==
    send_result = "true" =>
        LET n == Len(packets)
        IN  /\ n * payload_size >= Len(data)
            /\ (n = 0 \/ (n - 1) * payload_size < Len(data))
            /\ \A i \in 1..n :
                /\ GetIdentifier(packets[i]) = GetIdentifier(packets[1])
                /\ GetTotal(packets[i]) = n
            /\ {GetSequence(q) : q \in Range(packets)} = 0..(n - 1)
            /\ \A i, j \in 1..n :
                GetSequence(packets[i]) = GetSequence(packets[j]) => i = j
            /\ Join([k \in 1..n |->
                        GetPayload(PacketWithSequence(packets, k - 1))]) = data

\* C1's case: a message that needs several packets, the last one short
C1_Witness ==
    /\ send_result = "true"
    /\ Len(packets) >= 2
    /\ Len(data) % payload_size # 0

\* the packets the peer's send produced for sent_message
SentPackets ==
    PackData(sent_message, payload_size, PeerIdentifier, last_rssi)

\* C2: when the packets of one send of a non-empty message have been delivered
\* to listen in any order, without loss, duplicate or foreign packet among the
\* accepted ones, listen has returned exactly the bytes that were sent.
C2_RoundTrip ==
    (/\ sent_message # <<>>
     /\ Len(received_packets) = Len(SentPackets)
     /\ Range(received_packets) = Range(SentPackets))
        => (lpc = "returned" /\ listen_result = Some(sent_message))

\* C2's case: all packets of a message of several packets arrived, the first
\* arrival not being the first packet
C2_Witness ==
    /\ lpc = "returned"
    /\ Len(received_packets) >= 2
    /\ Range(received_packets) = Range(SentPackets)
    /\ Len(received_packets) = Len(SentPackets)
    /\ GetSequence(received_packets[1]) > 0
    /\ listen_result = Some(sent_message)

\* the packet radio.receive just returned is cross-talk for this call
ForeignPacket(received, p) ==
    /\ p # None
    /\ received # <<>>
    /\ GetIdentifier(p[1]) # GetIdentifier(received[1])

\* C3: the first received packet fixes the accepted identifier; a later packet
\* with another identifier is never among the accepted packets (so never in the
\* result, which is made of them), does not count toward completion and does
\* not end the call: the call ends only when an accepted packet completes the
\* message or the timeout has elapsed.
C3_CrossTalk ==
    /\ [](\A i \in 1..Len(received_packets) :
            GetIdentifier(received_packets[i])
                = GetIdentifier(received_packets[1]))
    /\ [](lpc = "returned" /\ listen_result # None
            => listen_result = Some(UnpackData(received_packets)))
    /\ [][(lpc = "recv" /\ lpc' # "recv"
            /\ ForeignPacket(received_packets, packet'))
          => (/\ received_packets' = received_packets
              /\ lpc' = "check"
              /\ listen_result' = listen_result)]_vars
    /\ [][(lpc # "returned" /\ lpc' = "returned")
          => \/ (lpc = "check" /\ elapsed > Timeout /\ listen_result' = None)
             \/ (/\ lpc = "recv"
                 /\ packet' # None
                 /\ received_packets' = Append(received_packets, packet'[1])
                 /\ GetIdentifier(packet'[1])
                        = GetIdentifier(received_packets'[1])
                 /\ GetTotal(packet'[1]) = Len(received_packets'))]_vars

\* C3's case: a foreign packet arrived after the first packet and the call goes
\* on
C3_Witness ==
    /\ lpc = "check"
    /\ ForeignPacket(received_packets, packet)
    /\ Len(received_packets) < GetTotal(received_packets[1])

\* C4: if fewer than total packets of the accepted identifier arrived before
\* the timeout, listen returns None, never a partial reassembly, and the
\* packets it accumulated are gone when listen is called again.
C4_Timeout ==
    /\ []((/\ lpc = "returned"
           /\ (received_packets = <<>>
               \/ Len(received_packets) < GetTotal(received_packets[1])))
          => listen_result = None)
    /\ [][(lpc = "returned" /\ lpc' # "returned")
          => received_packets' = <<>>]_vars

\* C4's case: the timeout elapsed with a part of the message accumulated
C4_Witness ==
    /\ lpc = "returned"
    /\ listen_result = None
    /\ received_packets # <<>>
    /\ Len(received_packets) < GetTotal(received_packets[1])

\* C5: listen returns a byte string only after one packet for every sequence
\* number in [0, total) of the accepted identifier has arrived; a duplicated
\* packet cannot stand in for a missing one.
C5_AllFragments ==
    (lpc = "returned" /\ listen_result # None)
        => {GetSequence(q) : q \in Range(received_packets)}
                = 0..(GetTotal(received_packets[1]) - 1)

(***************************************************************************)
(* Claims about the Command Protocol.                                      *)
(***************************************************************************)
\* the message this cycle received
Received == json_bytes[1]
\* listen_for_commands is over: it returned, the device reset, or an
\* exception left it
CycleOver == cpc \in {"returned", "reset", "raised"}
\* the message carries the configured password and satellite name
Authentic(m) ==
    /\ m.kind = "object"
    /\ m.password = Some(SuperSecretCode)
    /\ m.name = Some(CubesatName)
\* the calls of PacketManager.send of this cycle, as <<data>> in call order
SendCalls == [i \in 1..Len(events) |-> <<events[i].op, events[i].data>>]

\* C6: for every JSON object whose password differs from the configured secret
\* or whose name differs from the configured satellite name, whatever its
\* command and args, listen_for_commands never calls PacketManager.send and
\* never reaches a command handler.
C6_Unauthenticated ==
    (/\ json_bytes # None
     /\ Received.kind = "object"
     /\ (Received.password # Some(SuperSecretCode)
         \/ Received.name # Some(CubesatName)))
        => (/\ events = <<>>
            /\ air = <<>>
            /\ cpc \in {"parse", "auth", "returned"})

\* C6's case: a reset command with a wrong password has been dropped
C6_Witness ==
    /\ cpc = "returned"
    /\ json_bytes # None
    /\ Received.kind = "object"
    /\ Received.password = Some("guess")
    /\ Received.name = Some(CubesatName)
    /\ Received.command = Some(CommandReset)

\* C7 as claimed: every received message that does not carry both the
\* configured password and the configured name, the messages that are not
\* valid UTF-8, not valid JSON or not a JSON object included, leaves the radio
\* silent.
C7_SilentForAll ==
    (json_bytes # None /\ ~Authentic(Received)) => events = <<>>

\* C7 as amended: a message that parses to a JSON object and does not carry
\* both the configured password and the configured name ends the cycle with
\* the radio output of a cycle that received nothing (no send call, nothing
\* handed to the radio, the configuration as it was); a message that is not
\* valid UTF-8, not valid JSON or not a JSON object is answered with one error
\* report.
C7_SilentDrop ==
    /\ (/\ CycleOver
        /\ json_bytes # None
        /\ Received.kind = "object"
        /\ ~Authentic(Received))
        => (/\ cpc = "returned"
            /\ SendCalls = <<>>
            /\ air = <<>>
            /\ <<modulation, saved_modulation>> = start_modulation)
    /\ (/\ CycleOver
        /\ json_bytes # None
        /\ Received.kind # "object")
        => (/\ cpc = "returned"
            /\ exc # "none"
            /\ SendCalls = << <<"send", ErrorText(exc)>> >>)

\* C7's case: a message for another satellite, with the right password, has
\* been dropped
C7_Witness ==
    /\ cpc = "returned"
    /\ json_bytes # None
    /\ Received.kind = "object"
    /\ Received.password = Some(SuperSecretCode)
    /\ Received.name = Some("OtherSat")
    /\ events = <<>>

C9_UnknownCommand ==
    (/\ CycleOver
     /\ json_bytes # None
     /\ Authentic(Received)
     /\ Received.command # None
     /\ Received.command[1] \notin {CommandReset, CommandChangeRadioModulation,
                                    CommandSendJoke})
        => (/\ cpc = "returned"
            /\ SendCalls = << <<"send", <<"ACK">>>>,
                              <<"send", <<"Unknown command received: ",
                                          Received.command[1]>>>> >>
            /\ <<modulation, saved_modulation>> = start_modulation)

\* C9's case: launch_missiles has been answered
C9_Witness ==
    /\ cpc = "returned"
    /\ json_bytes # None
    /\ Authentic(Received)
    /\ Received.command = Some("launch_missiles")
    /\ Len(events) = 2

\* C10: no exception ever leaves listen_for_commands, whatever the message
\* and whichever step fails, a failure of the radio while the error report is
\* sent included.
C10_NoPropagation == cpc # "raised"

(***************************************************************************)
(* Claims about the counter, the license gate and the radio's failures.    *)
(***************************************************************************)
\* the step is one call of PacketManager.send by the application
SendStep == ops' = ops + 1

\* C11: a licensed send increments the message counter exactly once, every
\* packet of the message carries the value after the increment, the
\* identifiers of consecutively sent messages differ by 1 modulo 256 (0 follows
\* 255), and the counter stays within 0..255.
C11_Counter ==
    /\ [](message_counter \in 0..255)
    /\ [][(SendStep /\ license # "")
          => (/\ message_counter' = (message_counter + 1) % 256
              /\ \A i \in 1..Len(packets') :
                    GetIdentifier(packets'[i]) = message_counter')]_vars
    /\ [][(SendStep /\ packets # <<>> /\ packets' # <<>>)
          => GetIdentifier(packets'[1])
                = (GetIdentifier(packets[1]) + 1) % 256]_vars

\* C11's case: the message sent after the one with identifier 255 carries 0
C11_Witness ==
    /\ ops = 2
    /\ license # ""
    /\ message_counter = 0
    /\ packets # <<>>
    /\ GetIdentifier(packets[1]) = 0

\* C12: with the empty license every call of PacketManager.send, the
\* acknowledgement and every response of the command cycle included, returns
\* False, hands nothing to the radio and leaves the message counter alone.
C12_LicenseGate ==
    /\ [](license = ""
            => (/\ air = <<>>
                /\ \A i \in 1..Len(events) :
                      events[i].op = "send" => events[i].ret = "false"))
    /\ [][license = "" => message_counter' = message_counter]_vars

\* C12's case: an unlicensed cycle got through the acknowledgement and the
\* response of a command
C12_Witness ==
    /\ license = ""
    /\ cpc = "returned"
    /\ Len(events) = 2
    /\ events[1].data = AckText
    /\ events[1].ret = "false"
    /\ events[2].ret = "false"

\* C13: when radio.send fails for a packet of a message, PacketManager.send
\* returns False.
C13_TransportFailure ==
    (spc = "returned" /\ \E i \in 1..Len(radio_acks) : ~radio_acks[i])
        => send_result = "false"

\* C14: at every send the payload capacity is what the radio reports now
\* minus the header: the message is cut into ceil(len / (max - 6)) packets and
\* no packet handed to the radio is longer than the radio's current maximum.
C14_Rederived ==
    [][(SendStep /\ send_result' = "true")
        => (/\ \A i \in 1..Len(air') : Len(air'[i]) <= max_packet_size'
            /\ Len(air') * (max_packet_size' - HeaderSize) >= Len(data')
            /\ (air' = <<>>
                \/ (Len(air') - 1) * (max_packet_size' - HeaderSize)
                        < Len(data')))]_vars

(***************************************************************************)
(* Claims about the binary codec.                                          *)
(***************************************************************************)
\* the keys the caller got a value accepted for
InsertedKeys == {key \in Keys : inserted[key] # None}

\* the length of the record to_bytes writes for an item of the encoder: the
\* hash, the type byte, and one length byte and the text, or the integer
RecordLength(item) ==
    IF item.value[1] = "s" THEN 6 + Len(item.value[2].seq)
    ELSE 5 + FormatSize(item.value[1])
\* where the i-th record ends in the serialized bytes
RECURSIVE RecordEnd(_, _)
RecordEnd(items, i) ==
    IF i = 0 THEN 0 ELSE RecordLength(items[i]) + RecordEnd(items, i - 1)

\* the bytes to_bytes returned, decoded whole with the encoder's key map, give
\* back the mapping the caller inserted
RoundTripOfSerialized ==
    (kpc = "decoded" /\ dec_input = blob)
        => (/\ {decoded[i].key : i \in 1..Len(decoded)} = InsertedKeys
            /\ Len(decoded) = Cardinality(InsertedKeys)
            /\ \A i \in 1..Len(decoded) :
                decoded[i].value = inserted[decoded[i].key][1])

\* C15: for the fields the encoder accepted, to_bytes yields bytes, and
\* decoding them with the encoder's key map yields exactly the name-to-value
\* mapping the caller inserted, field for field.
C15_RoundTrip ==
    /\ kpc = "failed" => InsertedKeys = {}
    /\ RoundTripOfSerialized

\* the one value an encoder of SpecSizing holds
SizedValue == inserted["temperature"][1]

\* C16: without a size, 200 is encoded as 1-byte unsigned (type 11), -5 as
\* 1-byte signed (type 1), 40000 as 2-byte unsigned (type 12), 3000000000 as
\* 4-byte unsigned (type 13) and -3000000000 as 8-byte signed (type 4).
C16_Examples ==
    (kpc = "serialized" /\ Len(enc_data) = 1)
        => (/\ SizedValue = PyInt(200) => (blob[5] = 11 /\ Len(blob) = 5 + 1)
            /\ SizedValue = PyInt(-5) => (blob[5] = 1 /\ Len(blob) = 5 + 1)
            /\ SizedValue = PyInt(40000)
                => (blob[5] = 12 /\ Len(blob) = 5 + 2)
            /\ SizedValue = ThreeBillion
                => (blob[5] = 13 /\ Len(blob) = 5 + 4)
            /\ SizedValue = Negated(ThreeBillion)
                => (blob[5] = 4 /\ Len(blob) = 5 + 8))

\* the records of the encoder that lie completely, and undamaged, within the
\* buffer handed to the decoder
CompleteRecords ==
    {i \in 1..Len(enc_data) :
        /\ RecordEnd(enc_data, i) <= Len(dec_input)
        /\ SubSeq(dec_input, 1, RecordEnd(enc_data, i))
            = SubSeq(blob, 1, RecordEnd(enc_data, i))}

\* C17: decoding never raises on a prefix of serialized bytes or on an unknown
\* type id; it yields exactly the records that lie completely within the
\* prefix and before the record with the unknown type id, in record order.
C17_Truncation ==
    /\ kpc # "decode_raised"
    /\ kpc = "decoded"
        => (/\ Len(decoded) = Cardinality(CompleteRecords)
            /\ \A i \in 1..Len(decoded) :
                /\ i \in CompleteRecords
                /\ decoded[i].key = enc_data[i].key
                /\ decoded[i].value = inserted[enc_data[i].key][1])

\* C17's case: the buffer ends inside the second record and the first record
\* is decoded
C17_Witness ==
    /\ kpc = "decoded"
    /\ Len(enc_data) = 2
    /\ Len(dec_input) > RecordEnd(enc_data, 1) + 5
    /\ Len(dec_input) < Len(blob)
    /\ Len(decoded) = 1

\* C18: add_string of a text whose UTF-8 encoding is longer than max_length
\* and add_int with a size other than 1, 2, 4, 8 raise at the call and leave
\* the encoder as it was; the bytes serialized later hold one record per
\* accepted key and nothing else.
C18_Rejected ==
    /\ []((/\ enc_call.op = "add_string"
           /\ Len(EncodeUtf8(enc_call.value.seq)) > enc_call.size[1])
          => enc_raised = "ValueError")
    /\ []((/\ enc_call.op = "add_int"
           /\ enc_call.size # None
           /\ enc_call.size[1] \notin {1, 2, 4, 8})
          => enc_raised = "ValueError")
    /\ [][(enc_calls' = enc_calls + 1 /\ enc_raised' = "ValueError")
          => (/\ enc_data' = enc_data
              /\ enc_key_map' = enc_key_map
              /\ inserted' = inserted)]_vars
    /\ [](kpc = "serialized"
          => (/\ Len(enc_data) = Cardinality(InsertedKeys)
              /\ Len(blob) = RecordEnd(enc_data, Len(enc_data))
              /\ \A i \in 1..Len(enc_data) :
                  /\ enc_data[i].key \in InsertedKeys
                  /\ SubSeq(blob, RecordEnd(enc_data, i - 1) + 1,
                            RecordEnd(enc_data, i - 1) + 4)
                        = KeyHash(enc_data[i].key)))

\* C18's case: a text of two characters and three bytes was refused for
\* max_length 2 after an accepted insertion, and the encoder was serialized
C18_Witness ==
    /\ kpc = "serialized"
    /\ enc_raised = "ValueError"
    /\ enc_call.op = "add_string"
    /\ enc_call.value = PyStr(<<104, 233>>)
    /\ enc_calls = 2
    /\ Len(enc_data) = 1

\* the size and the type id C19 gives a value
SizeRule(v) ==
    IF IntLeq(PyInt(-128), v) /\ IntLeq(v, PyInt(255)) THEN 1
    ELSE IF IntLeq(PyInt(-32768), v) /\ IntLeq(v, PyInt(32767)) THEN 2
    ELSE IF IntLeq(Negated(PyNat(<<128, 0, 0, 0>>)), v)
            /\ IntLess(v, PyNat(<<128, 0, 0, 0>>))
    THEN 4
    ELSE 8
InSignedRange(v, size) ==
    LET half == PyNat(<<128>> \o [i \in 1..(size - 1) |-> 0])
    IN  IntLeq(Negated(half), v) /\ IntLess(v, half)
TypeRule(v) ==
    LET size == SizeRule(v)
        signed == IF size = 1 THEN 1 ELSE IF size = 2 THEN 2
                  ELSE IF size = 4 THEN 3 ELSE 4
    IN  IF InSignedRange(v, size) THEN signed ELSE signed + 10

C20_Serializable ==
    /\ kpc # "failed"
    /\ kpc = "serialized"
        => \A i \in 1..Len(enc_data) :
            enc_data[i].value[1] = "s"
                => (/\ Len(enc_data[i].value[2].seq) <= 255
                    /\ blob[RecordEnd(enc_data, i - 1) + 6]
                        = Len(enc_data[i].value[2].seq))

(***************************************************************************)
(* Claims about the send loop, the termination of listen and the order of  *)
(* a command cycle.                                                        *)
(***************************************************************************)
\* C21: a licensed send hands the packets of the message to radio.send in
\* strictly ascending sequence order, each exactly once, whatever radio.send
\* returned for the earlier ones (no retransmission, no skipping after a
\* failure), and the call never receives: the state of listen is untouched.
C21_FireAndForget ==
    /\ [](send_result = "true"
            => (/\ Len(air) = Len(packets)
                /\ Len(radio_acks) = Len(packets)
                /\ \A i \in 1..Len(air) :
                      /\ air[i] = packets[i]
                      /\ GetSequence(air[i]) = i - 1
                /\ \A i, j \in 1..Len(air) :
                      i < j => GetSequence(air[i]) < GetSequence(air[j])))
    /\ [][SendStep => UNCHANGED listenVars]_vars

\* C21's case: the radio failed to send the first packet of a message of
\* several packets, and the later ones were handed over all the same
C21_Witness ==
    /\ send_result = "true"
    /\ Len(air) >= 2
    /\ ~radio_acks[1]
    /\ radio_acks[Len(air)]

\* C22: every call of listen returns: from any point inside the loop, with
\* radio.receive returning and the clock advancing, the call reaches its
\* return (with a reassembled message or with None), also when the radio keeps
\* delivering foreign packets or packets of a message that never completes.
C22_Terminates == (lpc \in {"check", "recv"}) ~> (lpc = "returned")

\* C22's case: the call returned None at the deadline while the last packet
\* the radio delivered was a foreign one, skipped beside a partial message
C22_Witness ==
    /\ lpc = "returned"
    /\ listen_result = None
    /\ elapsed > Timeout
    /\ ForeignPacket(received_packets, packet)
    /\ Len(received_packets) < GetTotal(received_packets[1])

\* the positions of the acknowledgement among the effects of the cycle
AckIndexes ==
    {i \in 1..Len(events) :
        events[i].op = "send" /\ events[i].data = <<"ACK">>}

\* C23: in a cycle whose message carries the configured password and name and
\* has a command, the acknowledgement is the first effect (it precedes every
\* response, configuration update and reset), it is sent exactly once, and with
\* a license it is the first thing handed to the radio; in a cycle whose
\* message fails parsing, authentication or has no command, no acknowledgement
\* is sent.
C23_AckFirst ==
    /\ (json_bytes # None /\ Authentic(Received) /\ Received.command # None)
        => (/\ events # <<>> => AckIndexes = {1}
            /\ CycleOver => AckIndexes = {1}
            /\ events = <<>>
                => <<modulation, saved_modulation>> = start_modulation
            /\ (license # "" /\ events # <<>>)
                => (air # <<>> /\ GetPayload(air[1]) = <<"ACK">>))
    /\ (json_bytes = None \/ ~Authentic(Received) \/ Received.command = None)
        => AckIndexes = {}

\* C23's case: a change of modulation was acknowledged, then carried out, then
\* answered
C23_Witness ==
    /\ cpc = "returned"
    /\ license # ""
    /\ Len(events) = 3
    /\ events[1].data = AckText
    /\ events[2].op = "update_config"
    /\ events[3].op = "send"

\* the positions of the hardware reset among the effects of the cycle
ResetIndexes == {i \in 1..Len(events) : events[i].op = "reset"}

\* C24: the device resets only in a cycle whose message carries the
\* configured password and name and the command reset, and only as the third
\* effect of the cycle, after the send of the acknowledgement and then the
\* send of the farewell; the reset is the last effect: nothing is sent, no
\* configuration changes and no further cycle starts after it.
C24_ResetLast ==
    /\ [](ResetIndexes # {}
            => (/\ json_bytes # None
                /\ Authentic(Received)
                /\ Received.command = Some("reset")
                /\ ResetIndexes = {3}
                /\ Len(events) = 3
                /\ SendCalls[1] = <<"send", <<"ACK">>>>
                /\ SendCalls[2] = <<"send", <<"Resetting satellite">>>>
                /\ <<modulation, saved_modulation>> = start_modulation))
    /\ []((cpc = "reset") <=> (ResetIndexes # {}))
    /\ [][cpc = "reset"
            => (/\ cpc' = "reset"
                /\ events' = events
                /\ air' = air
                /\ modulation' = modulation
                /\ saved_modulation' = saved_modulation)]_vars

\* C24's case: a licensed reset cycle has handed the acknowledgement and the
\* farewell to the radio and reset the device
C24_Witness ==
    /\ cpc = "reset"
    /\ license # ""
    /\ Len(air) = 2
    /\ GetPayload(air[2]) = ResetText
    /\ events[3] = ResetEvent

\* the message lacks the password key or the name key
MissingKeys(m) == m.kind = "object" /\ (m.password = None \/ m.name = None)

\* C25 as claimed: a message that is not valid UTF-8, not valid JSON, or
\* lacks keys such as password or name is answered with exactly one error
\* report and nothing else: no acknowledgement, no handler.
C25_ParseFailure ==
    (/\ CycleOver
     /\ json_bytes # None
     /\ (Received.kind # "object" \/ MissingKeys(Received)))
        => (/\ Len(SendCalls) = 1
            /\ SendCalls[1][1] = "send"
            /\ SendCalls[1][2][1] = "Failed to process command message: "
            /\ AckIndexes = {}
            /\ cmd = None)

\* C25 as amended: a message that is not valid UTF-8, not valid JSON or not a
\* JSON object is answered with exactly one error report, which carries the
\* exception of the step that failed, and the cycle stops without an
\* acknowledgement, a handler or a configuration change; a JSON object that
\* lacks the password key or the name key is dropped without any message.
C25_ParseFailureReported ==
    /\ (/\ CycleOver
        /\ json_bytes # None
        /\ Received.kind # "object")
        => (/\ cpc = "returned"
            /\ SendCalls
                = << <<"send",
                       <<"Failed to process command message: ",
                         CASE Received.kind = "not_utf8" -> "UnicodeError"
                           [] Received.kind = "not_json" -> "ValueError"
                           [] OTHER -> "AttributeError">>>> >>
            /\ AckIndexes = {}
            /\ cmd = None
            /\ <<modulation, saved_modulation>> = start_modulation)
    /\ (json_bytes # None /\ MissingKeys(Received))
        => (/\ events = <<>>
            /\ air = <<>>
            /\ cmd = None
            /\ cpc \in {"parse", "auth", "returned"})

\* C25's case: bytes that are not valid UTF-8 have been answered with the
\* error report, over a licensed radio
C25_Witness ==
    /\ cpc = "returned"
    /\ license # ""
    /\ json_bytes # None
    /\ Received.kind = "not_utf8"
    /\ Len(events) = 1
    /\ air # <<>>

\* C26: a message with the configured password and name and no command
\* results in exactly one send, of the response "No command found in
\* message", and the cycle returns: no acknowledgement, no handler, the
\* configuration in memory and on file as it was.
C26_NoCommand ==
    (/\ CycleOver
     /\ json_bytes # None
     /\ Authentic(Received)
     /\ Received.command = None)
        => (/\ cpc = "returned"
            /\ Len(events) = 1
            /\ events[1].op = "send"
            /\ events[1].data[1] = "No command found in message: "
            /\ license # "" => Join([i \in 1..Len(air) |-> GetPayload(air[i])])
                                    = events[1].data
            /\ args = <<>>
            /\ exc = "none"
            /\ <<modulation, saved_modulation>> = start_modulation)

\* C26's case: a licensed cycle answered an authentic message without a
\* command
C26_Witness ==
    /\ cpc = "returned"
    /\ license # ""
    /\ json_bytes # None
    /\ Authentic(Received)
    /\ Received.command = None
    /\ events # <<>>
    /\ events[1].ret = "true"

\* the cycle of an authentic change_radio_modulation command is over
ModulationCycleOver ==
    /\ CycleOver
    /\ json_bytes # None
    /\ Authentic(Received)
    /\ Received.command = Some("change_radio_modulation")

\* the configuration was updated to v in this cycle exactly if the cycle's
\* last send is the success message for v
ChangedIffSuccess(v) ==
    (\E i \in 1..Len(events) :
        events[i].op = "update_config" /\ events[i].data = <<v>>)
    <=> (/\ Len(events) >= 2
         /\ SendCalls[Len(events)]
                = <<"send", <<"Radio modulation changed: ", v>>>>)

\* C27: in the cycle of an authentic change_radio_modulation command with
\* args[0] present, the modulation is updated (in memory and on file) exactly
\* if the response after the acknowledgement is "Radio modulation changed:
\* <value>"; when the value is none of the allowed ones, the modulation in
\* memory and on file is unchanged and the response after the acknowledgement
\* is the "Failed to change radio modulation" message.
C27_ModulationChange ==
    (ModulationCycleOver /\ ArgsOf(Received) # <<>>)
        => LET v == ArgsOf(Received)[1]
           IN  /\ ChangedIffSuccess(v)
               /\ v \notin {"LoRa", "FSK"}
                    => (/\ <<modulation, saved_modulation>> = start_modulation
                        /\ Len(events) = 2
                        /\ SendCalls[1] = <<"send", <<"ACK">>>>
                        /\ SendCalls[2][1] = "send"
                        /\ SendCalls[2][2][1]
                                = "Failed to change radio modulation: ")

\* the first half of C27 alone
C27_ChangedIffSuccess ==
    (ModulationCycleOver /\ ArgsOf(Received) # <<>>)
        => (/\ ChangedIffSuccess(ArgsOf(Received)[1])
            /\ ArgsOf(Received)[1] \notin {"LoRa", "FSK"}
                => <<modulation, saved_modulation>> = start_modulation)

\* C28: in the cycle of an authentic change_radio_modulation command whose
\* args is absent, is no list, or is the empty list, the effects are the send
\* of the acknowledgement followed by the send of "No modulation specified.
\* Please provide a modulation type.", and the modulation in memory and on
\* file is as it was.
C28_NoModulation ==
    (/\ ModulationCycleOver
     /\ (\/ Received.args = None
         \/ Received.args[1][1] # "list"
         \/ Received.args[1][2] = <<>>))
        => (/\ cpc = "returned"
            /\ SendCalls
                = << <<"send", <<"ACK">>>>,
                     <<"send", <<"No modulation specified. Please provide a modulation type.">>>> >>
            /\ <<modulation, saved_modulation>> = start_modulation)

\* C28's case: args was the string "FSK", no list, while the modulation was
\* LoRa, and the licensed cycle answered with the usage message
C28_Witness ==
    /\ ModulationCycleOver
    /\ license # ""
    /\ Received.args = Some(<<"str", "FSK">>)
    /\ modulation = "LoRa"
    /\ Len(events) = 2
    /\ events[2].data = NoModulationText

\* C29: every packet send hands to the radio is a 6-byte header (the
\* identifier in one byte, the sequence number and the total in two bytes each,
\* most significant byte first, the magnitude of the RSSI in one byte)
\* followed by 1 to max_packet_size - 6 payload bytes, so it is never longer
\* than the max_packet_size the radio reported at construction; every packet
\* but the last of a message carries max_packet_size - 6 payload bytes.
C29_PacketShape ==
    send_result = "true" =>
        \A i \in 1..Len(air) :
            LET p == air[i]
            IN  /\ Len(p) - 6 \in 1..(max_packet_size - 6)
                /\ Len(p) <= max_packet_size
                /\ i < Len(air) => Len(p) = max_packet_size
                /\ p[1] = message_counter
                /\ p[2] = (i - 1) \div 256
                /\ p[3] = (i - 1) % 256
                /\ p[4] = Len(air) \div 256
                /\ p[5] = Len(air) % 256
                /\ p[6] = Abs(last_rssi)
                /\ SubSeq(p, 7, Len(p))
                    = SubSeq(data, (i - 1) * (max_packet_size - 6) + 1,
                             (i - 1) * (max_packet_size - 6) + Len(p) - 6)

\* C29's case: a message of several packets whose last packet is shorter
\* than the radio's maximum
C29_Witness ==
    /\ send_result = "true"
    /\ Len(air) >= 2
    /\ Len(air[1]) = max_packet_size
    /\ Len(air[Len(air)]) < max_packet_size

\* C30: a licensed send of the empty byte string hands no packet to the radio,
\* returns True and advances the message counter by one (modulo 256); the
\* identifier it consumed is on no packet: the message sent next carries the
\* identifier after it.
C30_EmptySend ==
    /\ [][(SendStep /\ license # "" /\ data' = <<>>)
            => (/\ packets' = <<>>
                /\ air' = <<>>
                /\ radio_acks' = <<>>
                /\ send_result' = "true"
                /\ spc' = "returned"
                /\ message_counter' = (message_counter + 1) % 256)]_vars
    /\ [][(SendStep /\ license # "" /\ ops >= 1 /\ data = <<>>)
            => \A i \in 1..Len(air') :
                  /\ GetIdentifier(air'[i]) # message_counter
                  /\ GetIdentifier(air'[i]) = (message_counter + 1) % 256]_vars

\* C30's case: the empty message consumed the identifier 255
C30_Witness ==
    /\ ops = 1
    /\ license # ""
    /\ data = <<>>
    /\ send_result = "true"
    /\ air = <<>>
    /\ message_counter = 255

====
